---- MODULE Spec2Model ----
(***************************************************************************)
(* Model of src/rag_doc_ingestion/ingest_docs.py: the module-level start   *)
(* up (settings, embedding model), the ingestion driver                    *)
(* build_vector_store_from_documents, and the entry-point guard.           *)
(*                                                                         *)
(* The persistent Chroma store (directory, collection, records) outlives   *)
(* a process; everything else is per-process state.  Each library call of  *)
(* the driver is one step, because a call may raise and the driver's       *)
(* handler then ends the run with whatever the earlier calls left behind.  *)
(***************************************************************************)
EXTENDS Integers, Sequences, FiniteSets

\* ---------------------------------------------------------------- bounds
MaxProcs == 2          \* processes started one after the other
MaxRuns == 2           \* driver calls made by an importing process
MaxDocs == 1           \* documents the loader returns
MaxNodesPerDoc == 2    \* nodes the chunker cuts out of one document

\* ------------------------------------------------------ program constants
\* length of the vectors of the model HuggingFaceEmbedding() loads by default
EmbedDim == 384
Keys == {"DOCUMENTS_DIR", "VECTOR_STORE_DIR", "COLLECTION_NAME"}

VARIABLES
    procs,          \* processes started so far
    pc,             \* position of the running process
    mode,           \* "script" (__name__ == "__main__") or "import"
    absent,         \* the configuration keys missing from the environment
    docsDir,        \* the documents directory: "missing", "empty", "files"
    settings,       \* TRUE once the module-level settings object exists
    embed_model,    \* 0 while unloaded, else the vector length of the model
    modelLoads,     \* HuggingFaceEmbedding() calls of this process
    docLoads,       \* SimpleDirectoryReader calls of this process
    log,            \* records written by logger / the settings loader
    logBase,        \* Len(log) when the current run started
    runs,           \* driver calls of this process
    documents,      \* number of documents loaded in this run
    nodes,          \* ids of the nodes parsed in this run, in order
    db,             \* TRUE once this run holds a PersistentClient
    attempts,       \* step -> times the step was entered in this run
    done,           \* steps of this run that completed
    raised,         \* step of this run that raised, or "none"
    written,        \* records this run's index construction wrote
    result,         \* value the driver returned, -1 while it has not
    exitCode,       \* exit code of the process, -1 while it runs
    storeDir,       \* on disk: the store directory exists
    collExists,     \* on disk: the collection exists
    collection,     \* on disk: the records of the collection
    nextId,         \* ids handed out so far (node ids are fresh uuids)
    before,         \* the disk as it was when the process / run started
    prev            \* the previous completed run against this store

vars == <<procs, pc, mode, absent, docsDir, settings, embed_model, modelLoads,
          docLoads, log, logBase, runs, documents, nodes, db, attempts, done,
          raised, written, result, exitCode, storeDir, collExists, collection,
          nextId, before, prev>>

procEnv == <<procs, mode, absent, docsDir>>
runVars == <<documents, nodes, db, attempts, done, raised, written>>
disk == <<storeDir, collExists, collection>>

\* ---------------------------------------------------------------- helpers
\* the calls inside the try block, in program order
StepOrderStoreFirst ==
    <<"open", "collection", "load", "chunk", "wrap", "context", "index">>

StepOrder ==
    <<"load", "chunk", "open", "collection", "wrap", "context", "index">>

Steps == {StepOrder[i] : i \in 1..Len(StepOrder)}

IndexOf(step) == CHOOSE i \in 1..Len(StepOrder) : StepOrder[i] = step

After(step) == StepOrder[IndexOf(step) + 1]

Line(level, msg) == [level |-> level, msg |-> msg]

Info(l, msg) == Append(l, Line("INFO", msg))

Errors(l, from) ==
    Cardinality({i \in (from + 1)..Len(l) : l[i].level = "ERROR"})

Snapshot == [dir |-> storeDir, coll |-> collExists, records |-> collection]

NoRun == [result |-> -1, nodes |-> 0, start |-> 0, records |-> {}]

Init ==
    /\ procs = 0
    /\ pc = "off"
    /\ mode = "script"
    /\ absent = {}
    /\ docsDir = "missing"
    /\ settings = FALSE
    /\ embed_model = 0
    /\ modelLoads = 0
    /\ docLoads = 0
    /\ log = <<>>
    /\ logBase = 0
    /\ runs = 0
    /\ documents = 0
    /\ nodes = <<>>
    /\ db = FALSE
    /\ attempts = [s \in Steps |-> 0]
    /\ done = {}
    /\ raised = "none"
    /\ written = 0
    /\ result = -1
    /\ exitCode = -1
    /\ storeDir = FALSE
    /\ collExists = FALSE
    /\ collection = {}
    /\ nextId = 0
    /\ before = [dir |-> FALSE, coll |-> FALSE, records |-> {}]
    /\ prev = NoRun

\* ------------------------------------------------------- process start up
\* python ingest_docs.py, or "import ingest_docs": a fresh interpreter;
\* lines 1-20 import the libraries and configure logging
StartProcess ==
    /\ pc \in {"off", "exited"}
    /\ procs < MaxProcs
    /\ procs' = procs + 1
    /\ \E m \in {"script", "import"} : mode' = m
    /\ \E a \in {{}} \cup {{k} : k \in Keys} : absent' = a
    /\ \E d \in {"missing", "empty", "files"} : docsDir' = d
    /\ pc' = "settings"
    /\ settings' = FALSE
    /\ embed_model' = 0
    /\ modelLoads' = 0
    /\ docLoads' = 0
    /\ log' = <<>>
    /\ logBase' = 0
    /\ runs' = 0
    /\ documents' = 0
    /\ nodes' = <<>>
    /\ db' = FALSE
    /\ attempts' = [s \in Steps |-> 0]
    /\ done' = {}
    /\ raised' = "none"
    /\ written' = 0
    /\ result' = -1
    /\ exitCode' = -1
    /\ before' = Snapshot
    /\ UNCHANGED <<disk, nextId, prev>>

\* DocIngestionSettings(): the three values are required
DocIngestionSettings(missing) == IF missing = {} THEN "ok" ELSE "abort"

\* a variant that goes on with whatever the environment holds
LoadSettingsLenient ==
    /\ pc = "settings"
    /\ settings' = TRUE
    /\ pc' = "embed"
    /\ log' = IF DocIngestionSettings(absent) = "ok" THEN log
              ELSE Append(log, Line("ERROR", "settings"))
    /\ UNCHANGED <<procEnv, embed_model, modelLoads, docLoads, logBase, runs,
                   runVars, result, exitCode, disk, nextId, before, prev>>

\* line 23: settings = DocIngestionSettings(), at import time
LoadSettings ==
    /\ pc = "settings"
    /\ \/ /\ DocIngestionSettings(absent) = "ok"
          /\ settings' = TRUE
          /\ pc' = "embed"
          /\ UNCHANGED <<log, exitCode>>
       \/ /\ DocIngestionSettings(absent) = "abort"
          /\ log' = Append(log, Line("ERROR", "settings"))
          /\ exitCode' = 1
          /\ pc' = "exited"
          /\ UNCHANGED settings
    /\ UNCHANGED <<procEnv, embed_model, modelLoads, docLoads, logBase, runs,
                   runVars, result, disk, nextId, before, prev>>

\* lines 25-26: the model is downloaded and loaded at import time; an
\* exception here is uncaught and ends the process
LoadEmbedModel ==
    /\ pc = "embed"
    /\ log' = Info(log, "Loading HuggingFace embedding model...")
    /\ modelLoads' = modelLoads + 1
    /\ \/ /\ embed_model' = EmbedDim
          /\ pc' = IF mode = "script" THEN "main" ELSE "idle"
          /\ UNCHANGED exitCode
       \/ /\ exitCode' = 1
          /\ pc' = "exited"
          /\ UNCHANGED embed_model
    /\ UNCHANGED <<procEnv, settings, docLoads, logBase, runs, runVars,
                   result, disk, nextId, before, prev>>

\* ------------------------------------------------------------ the driver
\* the handler of lines 73-75, entered with the log l and the records recs
\* the failing call left behind; a variant without the handler lets the
\* exception leave the function and end the process
Uncaught(step, l, recs) ==
    /\ log' = l
    /\ result' = result
    /\ pc' = "exited"
    /\ exitCode' = 1
    /\ collection' = recs

\* a variant that deletes what the failed run wrote
CaughtRollback(step, l, recs) ==
    /\ log' = Append(l, Line("ERROR", "Error during vector store build"))
    /\ result' = 1
    /\ pc' = "returned"
    /\ collection' = before.records
    /\ UNCHANGED exitCode

Caught(step, l, recs) ==
    /\ log' = Append(l, Line("ERROR", "Error during vector store build"))
    /\ result' = 1
    /\ pc' = "returned"
    /\ collection' = recs
    /\ UNCHANGED exitCode

\* step raised: nothing of it is kept, the handler runs
Raise(step, l) ==
    /\ raised' = step
    /\ attempts' = [attempts EXCEPT ![step] = @ + 1]
    /\ Caught(step, l, collection)

\* step completed and control moves to the next call
Complete(step, l) ==
    /\ attempts' = [attempts EXCEPT ![step] = @ + 1]
    /\ done' = done \cup {step}
    /\ log' = l
    /\ pc' = After(step)
    /\ UNCHANGED <<raised, result, exitCode>>

\* a variant that loads the embedding model on every call
DriverEntryLazyModel ==
    /\ log' = Info(Info(log, "Starting vector store ingestion process."),
                   "Loading documents from directory")
    /\ logBase' = Len(log)
    /\ runs' = runs + 1
    /\ modelLoads' = modelLoads + 1
    /\ documents' = 0
    /\ nodes' = <<>>
    /\ db' = FALSE
    /\ attempts' = [s \in Steps |-> 0]
    /\ done' = {}
    /\ raised' = "none"
    /\ written' = 0
    /\ result' = -1
    /\ before' = Snapshot
    /\ pc' = StepOrder[1]
    /\ UNCHANGED <<procEnv, settings, embed_model, docLoads, exitCode,
                   disk, nextId, prev>>

\* lines 29-36: the call starts, reads the three settings and logs
DriverEntry ==
    /\ log' = Info(Info(log, "Starting vector store ingestion process."),
                   "Loading documents from directory")
    /\ logBase' = Len(log)
    /\ runs' = runs + 1
    /\ documents' = 0
    /\ nodes' = <<>>
    /\ db' = FALSE
    /\ attempts' = [s \in Steps |-> 0]
    /\ done' = {}
    /\ raised' = "none"
    /\ written' = 0
    /\ result' = -1
    /\ before' = Snapshot
    /\ pc' = StepOrder[1]
    /\ UNCHANGED <<procEnv, settings, embed_model, modelLoads, docLoads,
                   exitCode, disk, nextId, prev>>

\* lines 78-79: run as a script, the module calls the driver once
MainCall ==
    /\ pc = "main"
    /\ DriverEntry

\* an importing program calls the driver
ImportCall ==
    /\ pc = "idle"
    /\ runs < MaxRuns
    /\ DriverEntry

\* SimpleDirectoryReader(input_dir=...) raises ValueError for a directory
\* that does not exist and for one in which it finds no file
LoaderAcceptsEmpty(dir) == dir # "missing"

LoaderAccepts(dir) == dir = "files"

\* lines 38-40: read the documents; a file that cannot be read is skipped,
\* so a directory with files may still yield no document
LoadDocuments ==
    /\ pc = "load"
    /\ docLoads' = docLoads + 1
    /\ \/ /\ LoaderAccepts(docsDir)
          /\ \E n \in 0..MaxDocs :
                documents' = IF docsDir = "files" THEN n ELSE 0
          /\ Complete("load", log)
          /\ UNCHANGED collection
       \/ /\ Raise("load", log)
          /\ UNCHANGED <<documents, done>>
    /\ UNCHANGED <<procEnv, settings, embed_model, modelLoads, logBase, runs,
                   nodes, db, written, storeDir, collExists, nextId, before,
                   prev>>

\* lines 42-46: cut every document into at least one node; nodes get new ids
ParseNodes ==
    /\ pc = "chunk"
    /\ \/ /\ \E n \in documents..(documents * MaxNodesPerDoc) :
                /\ nodes' = [i \in 1..n |-> nextId + i]
                /\ nextId' = nextId + n
          /\ Complete("chunk", Info(Info(log, "Parsing documents into nodes."),
                                    "Parsed nodes."))
          /\ UNCHANGED collection
       \/ /\ Raise("chunk", Info(log, "Parsing documents into nodes."))
          /\ UNCHANGED <<nodes, nextId, done>>
    /\ UNCHANGED <<procEnv, settings, embed_model, modelLoads, docLoads,
                   logBase, runs, documents, db, written, storeDir,
                   collExists, before, prev>>

\* lines 48-50: chromadb.PersistentClient(path) creates the directory
OpenClient ==
    /\ pc = "open"
    /\ \/ /\ db' = TRUE
          /\ storeDir' = TRUE
          /\ Complete("open", Info(log, "Initializing ChromaDB persistent client"))
          /\ UNCHANGED collection
       \/ /\ Raise("open", Info(log, "Initializing ChromaDB persistent client"))
          /\ UNCHANGED <<db, storeDir, done>>
    /\ UNCHANGED <<procEnv, settings, embed_model, modelLoads, docLoads,
                   logBase, runs, documents, nodes, written, collExists,
                   nextId, before, prev>>

\* a variant that starts every run from an empty collection
RecreateCollection(exists, records) == {}

\* db.get_or_create_collection(name): the records of the collection handed
\* back; an existing collection is handed back as it is
GetOrCreateCollection(exists, records) == IF exists THEN records ELSE {}

\* lines 52-54
OpenCollection ==
    /\ pc = "collection"
    /\ db
    /\ \/ /\ collExists' = TRUE
          /\ collection' = GetOrCreateCollection(collExists, collection)
          /\ Complete("collection", Info(log, "Creating Chroma vector store"))
       \/ /\ Raise("collection", log)
          /\ UNCHANGED <<collExists, done>>
    /\ UNCHANGED <<procEnv, settings, embed_model, modelLoads, docLoads,
                   logBase, runs, documents, nodes, db, written, storeDir,
                   nextId, before, prev>>

\* lines 56-58: ChromaVectorStore(chroma_collection=...)
WrapStore ==
    /\ pc = "wrap"
    /\ \/ /\ Complete("wrap", log)
          /\ UNCHANGED collection
       \/ /\ Raise("wrap", log)
          /\ UNCHANGED done
    /\ UNCHANGED <<procEnv, settings, embed_model, modelLoads, docLoads,
                   logBase, runs, documents, nodes, db, written, storeDir,
                   collExists, nextId, before, prev>>

\* lines 60-62: StorageContext.from_defaults(vector_store=...)
MakeStorageContext ==
    /\ pc = "context"
    /\ \/ /\ Complete("context", Info(log, "Building vector store index."))
          /\ UNCHANGED collection
       \/ /\ Raise("context", log)
          /\ UNCHANGED done
    /\ UNCHANGED <<procEnv, settings, embed_model, modelLoads, docLoads,
                   logBase, runs, documents, nodes, db, written, storeDir,
                   collExists, nextId, before, prev>>

\* a variant that loses the first node
IndexRecordsSkipFirst(ns, model, k) ==
    {[id |-> ns[i], dim |-> model] : i \in 2..k}

\* a variant that embeds with the library's default embedder
IndexRecordsDefaultEmbedder(ns, model, k) ==
    {[id |-> ns[i], dim |-> 1536] : i \in 1..k}

\* the records VectorStoreIndex(nodes, ..., embed_model=embed_model) makes of
\* the first k nodes: one per node, its vector computed by the given model
IndexRecords(ns, model, k) ==
    {[id |-> ns[i], dim |-> model] : i \in 1..k}

\* collection.add: records are keyed by id, an id already stored is kept
Add(records, new) ==
    records \cup {r \in new : \A o \in records : o.id # r.id}

\* lines 64-72: building the index embeds and stores the nodes; it may
\* raise after any number of them were stored
BuildIndex ==
    /\ pc = "index"
    /\ \E k \in 0..Len(nodes) :
          /\ written' = k
          /\ \/ /\ k = Len(nodes)
                /\ attempts' = [attempts EXCEPT !["index"] = @ + 1]
                /\ done' = done \cup {"index"}
                /\ collection' = Add(collection, IndexRecords(nodes, embed_model, k))
                /\ log' = Info(log, "Vector store build successfully.")
                /\ result' = 0
                /\ pc' = "returned"
                /\ UNCHANGED <<raised, exitCode>>
             \/ /\ raised' = "index"
                /\ attempts' = [attempts EXCEPT !["index"] = @ + 1]
                /\ Caught("index", log,
                          Add(collection, IndexRecords(nodes, embed_model, k)))
                /\ UNCHANGED done
    /\ UNCHANGED <<procEnv, settings, embed_model, modelLoads, docLoads,
                   logBase, runs, documents, nodes, db, storeDir, collExists,
                   nextId, before, prev>>

ThisRun ==
    [result |-> result, nodes |-> Len(nodes),
     start |-> Cardinality(before.records), records |-> collection]

\* line 79: the call's value is dropped and the script runs off its end
MainExit ==
    /\ pc = "returned"
    /\ mode = "script"
    /\ exitCode' = 0
    /\ pc' = "exited"
    /\ prev' = ThisRun
    /\ UNCHANGED <<procEnv, settings, embed_model, modelLoads, docLoads, log,
                   logBase, runs, runVars, result, disk, nextId, before>>

\* the driver's value goes back to the importing program
ReturnToCaller ==
    /\ pc = "returned"
    /\ mode = "import"
    /\ pc' = "idle"
    /\ prev' = ThisRun
    /\ UNCHANGED <<procEnv, settings, embed_model, modelLoads, docLoads, log,
                   logBase, runs, runVars, result, exitCode, disk, nextId,
                   before>>

\* the importing program ends, with a code of its own choosing
HostExit ==
    /\ pc = "idle"
    /\ \E c \in {0, 1} : exitCode' = c
    /\ pc' = "exited"
    /\ UNCHANGED <<procEnv, settings, embed_model, modelLoads, docLoads, log,
                   logBase, runs, runVars, result, disk, nextId, before, prev>>

Next ==
    \/ StartProcess
    \/ LoadSettings
    \/ LoadEmbedModel
    \/ MainCall
    \/ ImportCall
    \/ LoadDocuments
    \/ ParseNodes
    \/ OpenClient
    \/ OpenCollection
    \/ WrapStore
    \/ MakeStorageContext
    \/ BuildIndex
    \/ MainExit
    \/ ReturnToCaller
    \/ HostExit

Spec == Init /\ [][Next]_vars

\* ----------------------------------------------------------------- claims
AfterRun == runs > 0 /\ pc \in {"returned", "idle", "exited"}

StoreUntouched ==
    /\ storeDir = before.dir
    /\ collExists = before.coll
    /\ collection = before.records

\* C1: run as the entry point, the process exits with the driver's result:
\* 0 when ingestion succeeded, 1 when an exception occurred during it
C1_ExitCodeIsDriverResult ==
    (pc = "exited" /\ mode = "script" /\ runs > 0) => exitCode = result

\* C2: the driver always ends by returning a value and never lets an
\* exception out; it returns 0 exactly when every call of the try block
\* completed and 1 exactly when one of them raised
C2_DriverAlwaysReturns ==
    /\ AfterRun => result \in {0, 1}
    /\ raised # "none" => pc \in {"returned", "idle", "exited"}
    /\ pc = "returned" =>
          /\ (result = 0) <=> (raised = "none" /\ done = Steps)
          /\ (result = 1) <=> (raised # "none" /\ done # Steps)

C2_Witness ==
    /\ pc = "returned"
    /\ result = 1
    /\ raised = "collection"
    /\ done = {"load", "chunk", "open"}

\* C3: with a documents directory that does not exist the driver returns 1
\* and logs one ERROR, and the store is untouched: no client is opened, no
\* store directory or collection is created, no record is written
C3_MissingDirLeavesStoreUntouched ==
    (docsDir = "missing" /\ runs > 0) =>
        /\ ~db
        /\ StoreUntouched
        /\ AfterRun => (result = 1 /\ Errors(log, logBase) = 1)

C3_Witness ==
    /\ docsDir = "missing"
    /\ pc = "returned"
    /\ result = 1
    /\ raised = "load"
    /\ ~storeDir

\* C4: after a run that returns 0 with C nodes the collection holds exactly
\* C more records than before the run, one per node
C4_OneRecordPerNode ==
    (pc = "returned" /\ result = 0) =>
        /\ Cardinality(collection) = Cardinality(before.records) + Len(nodes)
        /\ before.records \subseteq collection
        /\ \A i \in 1..Len(nodes) :
              Cardinality({r \in collection : r.id = nodes[i]}) = 1

C4_Witness ==
    /\ pc = "returned"
    /\ result = 0
    /\ Len(nodes) = 2
    /\ before.records # {}

\* C5: a second run against the same store reuses the existing collection
\* and appends to it: the records found at its start stay, and after two
\* successful runs of C nodes each the collection has grown by 2C
C5_SecondRunAppends ==
    /\ (before.coll /\ "collection" \in done) => before.records \subseteq collection
    /\ (pc = "returned" /\ result = 0 /\ prev.result = 0
            /\ prev.nodes = Len(nodes)) =>
          /\ prev.records \subseteq collection
          /\ Cardinality(collection) = prev.start + 2 * Len(nodes)

C5_Witness ==
    /\ pc = "returned"
    /\ result = 0
    /\ before.coll
    /\ prev.result = 0
    /\ prev.nodes = 2
    /\ Len(nodes) = 2
    /\ Cardinality(collection) = prev.start + 4

\* C6 as stated: an existing but empty documents directory gives 0
\* documents, 0 nodes, a completed index construction and the value 0,
\* with no record written and no ERROR logged
C6_EmptyDirReturnsZero ==
    (docsDir = "empty" /\ pc = "returned") =>
        /\ result = 0
        /\ documents = 0
        /\ nodes = <<>>
        /\ "index" \in done
        /\ collection = before.records
        /\ Errors(log, logBase) = 0

\* C6 amended: an existing but empty documents directory makes the loader
\* raise; the driver returns 1 with one ERROR logged, no document loaded, no
\* node made, the store not opened and no record written
C6_EmptyDirFailsAtLoad ==
    (docsDir = "empty" /\ pc = "returned") =>
        /\ result = 1
        /\ raised = "load"
        /\ Errors(log, logBase) = 1
        /\ documents = 0
        /\ nodes = <<>>
        /\ ~db
        /\ StoreUntouched

C6_Witness ==
    /\ docsDir = "empty"
    /\ pc = "returned"
    /\ result = 1
    /\ collection # {}

\* C7: with a required configuration value absent the process aborts at
\* start up with a logged error, before the model is loaded, the driver
\* runs, a document is read or the store is opened
C7_AbsentSettingAbortsAtStartup ==
    (absent # {} /\ pc # "settings") =>
        /\ pc = "exited"
        /\ exitCode = 1
        /\ Errors(log, 0) = 1
        /\ ~settings
        /\ modelLoads = 0
        /\ runs = 0
        /\ docLoads = 0
        /\ ~db
        /\ StoreUntouched

C7_Witness ==
    /\ absent = {"COLLECTION_NAME"}
    /\ pc = "exited"
    /\ exitCode = 1

\* C8: the embedding model is loaded once per process, at start up, before
\* any document is loaded, also when the run then fails at loading the
\* documents; a further call of the driver does not load it again
C8_ModelLoadedOnceAtStartup ==
    /\ modelLoads <= 1
    /\ (runs > 0 \/ docLoads > 0) => (modelLoads = 1 /\ embed_model = EmbedDim)

C8_Witness ==
    /\ runs = 2
    /\ pc = "returned"
    /\ raised = "load"
    /\ modelLoads = 1

\* C9: every record of the collection, over any number of runs, has a
\* vector as long as the embedding model's output
C9_VectorsHaveModelDimension == \A r \in collection : r.dim = EmbedDim

C9_Witness ==
    /\ procs = 2
    /\ Cardinality(before.records) >= 2
    /\ Cardinality(collection) > Cardinality(before.records)

\* C10: a failing step is not retried and nothing is rolled back: no step
\* is entered twice in a run, a failed run logs exactly one ERROR, and when
\* index construction fails after k nodes were written the collection
\* exists and holds those k records when the driver returns 1
C10_NoRetryNoRollback ==
    /\ \A s \in Steps : attempts[s] <= 1
    /\ (pc = "returned" /\ result = 1) => Errors(log, logBase) = 1
    /\ (pc = "returned" /\ raised = "index") =>
          /\ result = 1
          /\ collExists
          /\ before.records \subseteq collection
          /\ {r.id : r \in collection \ before.records}
                = {nodes[i] : i \in 1..written}
          /\ Cardinality(collection) = Cardinality(before.records) + written

C10_Witness ==
    /\ pc = "returned"
    /\ raised = "index"
    /\ Len(nodes) = 2
    /\ written = 1
    /\ before.records # {}
====
